---- MODULE Spec2Model ----
(***************************************************************************)
(* Model of the streaming chat client, src/My_Study_Material/ao-chat-boot/ *)
(* chat.js (class ChatApp).  Text is a sequence of symbols; the response   *)
(* body is a sequence of wire symbols that the client splits, strips and   *)
(* parses as the code does.                                                *)
(***************************************************************************)
EXTENDS Integers, Sequences, FiniteSets, TLC

\* ------------------------------------------------------------------ bounds
MaxExchanges == 2   \* accepted submissions per session
MaxReads == 2       \* chunks the endpoint delivers in one session of several exchanges
MaxRecs == 3        \* event records the endpoint delivers in the first exchange
MaxPasses == 3      \* finalization passes applied to one render target
MaxBlockText == 5   \* length of the texts rendered for the finalization pass
MaxCalls == 1       \* calls of getAIResponse
MaxBodyRecs == 2    \* records of a response body read in pieces of any size
MaxArrLen == 3      \* length of the arrays handed to calKadaneAlgo
MaxAbs == 2         \* absolute value of their elements
MaxIntervals == 2   \* length of the arrays handed to mergeInterval
MaxPoint == 3       \* largest end point of their intervals
MaxElem == 4        \* largest element of the sorted arrays searched
StackLimit == 8     \* frames the call stack holds before RangeError

\* ------------------------------------------------------- text and the wire
NL == "\n"
Fence == "~~~"
TextChars == {"a", Fence}
Fragments == {<<"a">>, <<Fence>>}
Whitespace == {" ", NL}

DataPrefix == <<"d", "a", "t", "a", ":", " ">>
Separator == <<NL, NL>>
DoneMarker == "[DONE]"
DeltaOpen == "{choices:[{delta:{content:"
DeltaClose == "}}]}"
RoleJson == "{choices:[{delta:{role:assistant}}]}"
ErrorJson == "{error:overloaded}"
BadJson == "{bad json"
KeepAlive == <<":", "keep-alive">>

SystemPrompt == "You are Jarvis, a helpful AI assistant. Be concise, friendly, and helpful in your responses."
ApologyText == <<"Sorry, I encountered an error. Please check your LM Studio connection.">>
GreetingText == <<"Hello! I am Jarvis, powered by LM Studio. How can I help you today?">>

RECURSIVE Concat(_)
Concat(ss) == IF ss = <<>> THEN <<>> ELSE Head(ss) \o Concat(Tail(ss))

IsPrefix(s, t) == Len(s) <= Len(t) /\ SubSeq(t, 1, Len(s)) = s

\* String.prototype.trim
RECURSIVE TrimLeft(_)
TrimLeft(s) ==
    IF s # <<>> /\ Head(s) \in Whitespace THEN TrimLeft(Tail(s)) ELSE s

RECURSIVE TrimRight(_)
TrimRight(s) ==
    IF s # <<>> /\ s[Len(s)] \in Whitespace
    THEN TrimRight(SubSeq(s, 1, Len(s) - 1)) ELSE s

Trim(s) == TrimRight(TrimLeft(s))

\* line.startsWith('data: ') and line.substring(6)
StartsWith(s, p) == Len(s) >= Len(p) /\ SubSeq(s, 1, Len(p)) = p
Substring(s, n) == SubSeq(s, n + 1, Len(s))

\* chunk.split('\n\n'): the pieces between successive separators, the
\* (possibly empty) piece after the last separator included
RECURSIVE SplitFrom(_, _)
SplitFrom(s, cur) ==
    IF s = <<>> THEN <<cur>>
    ELSE IF StartsWith(s, Separator)
         THEN <<cur>> \o SplitFrom(Substring(s, Len(Separator)), <<>>)
         ELSE SplitFrom(Tail(s), Append(cur, Head(s)))

Split(chunk) == SplitFrom(chunk, <<>>)

\* JSON.parse over the payloads a completion endpoint sends: surrounding
\* whitespace is allowed, anything that is not a complete document throws
JSONParse(str) ==
    LET s == Trim(str) IN
    IF /\ Len(s) >= 2
       /\ s[1] = DeltaOpen
       /\ s[Len(s)] = DeltaClose
       /\ \A i \in 2..(Len(s) - 1) : s[i] \in TextChars
    THEN [ok |-> TRUE,
          value |-> [choices |-> <<[delta |-> [content |-> SubSeq(s, 2, Len(s) - 1)]]>>]]
    ELSE IF s = <<RoleJson>>
    THEN [ok |-> TRUE, value |-> [choices |-> <<[delta |-> [role |-> <<"assistant">>]]>>]]
    ELSE IF s = <<ErrorJson>>
    THEN [ok |-> TRUE, value |-> [error |-> <<"overloaded">>]]
    ELSE [ok |-> FALSE, value |-> [error |-> <<"SyntaxError">>]]

\* data.choices[0]?.delta?.content || ''  (throws when data.choices is absent)
DeltaContent(data) ==
    IF "choices" \notin DOMAIN data THEN [thrown |-> TRUE, token |-> <<>>]
    ELSE IF Len(data.choices) = 0 THEN [thrown |-> FALSE, token |-> <<>>]
    ELSE IF "delta" \notin DOMAIN data.choices[1] THEN [thrown |-> FALSE, token |-> <<>>]
    ELSE IF "content" \notin DOMAIN data.choices[1].delta THEN [thrown |-> FALSE, token |-> <<>>]
    ELSE [thrown |-> FALSE, token |-> data.choices[1].delta.content]

\* the body of the try block for one record: the token it adds to fullResponse
\* ('' when the catch swallows a parse or access error)
TokenOf(dataStr) ==
    LET parsed == JSONParse(dataStr) IN
    IF ~parsed.ok THEN <<>>
    ELSE LET got == DeltaContent(parsed.value) IN
         IF got.thrown THEN <<>> ELSE got.token

\* ProcessLines with the token put in front of the buffer
RECURSIVE ProcessLinesPrepend(_, _)
ProcessLinesPrepend(lines, fullResponse) ==
    IF lines = <<>> THEN fullResponse
    ELSE LET line == Head(lines) IN
         IF StartsWith(line, DataPrefix)
         THEN LET dataStr == Substring(line, 6) IN
              IF Trim(dataStr) = <<DoneMarker>> THEN fullResponse
              ELSE ProcessLinesPrepend(Tail(lines), TokenOf(dataStr) \o fullResponse)
         ELSE ProcessLinesPrepend(Tail(lines), fullResponse)

\* ProcessLines with the try/catch around the for loop instead of inside it
RECURSIVE ProcessLinesAbortOnBad(_, _)
ProcessLinesAbortOnBad(lines, fullResponse) ==
    IF lines = <<>> THEN fullResponse
    ELSE LET line == Head(lines) IN
         IF StartsWith(line, DataPrefix)
         THEN LET dataStr == Substring(line, 6) IN
              IF Trim(dataStr) = <<DoneMarker>> THEN fullResponse
              ELSE IF ~JSONParse(dataStr).ok \/ DeltaContent(JSONParse(dataStr).value).thrown
                   THEN fullResponse
                   ELSE ProcessLinesAbortOnBad(Tail(lines), fullResponse \o TokenOf(dataStr))
         ELSE ProcessLinesAbortOnBad(Tail(lines), fullResponse)

\* ProcessLines taking a line without the prefix for the end of the stream
RECURSIVE ProcessLinesStopAtOther(_, _)
ProcessLinesStopAtOther(lines, fullResponse) ==
    IF lines = <<>> THEN fullResponse
    ELSE LET line == Head(lines) IN
         IF StartsWith(line, DataPrefix)
         THEN LET dataStr == Substring(line, 6) IN
              IF Trim(dataStr) = <<DoneMarker>> THEN fullResponse
              ELSE ProcessLinesStopAtOther(Tail(lines), fullResponse \o TokenOf(dataStr))
         ELSE fullResponse

\* the for loop over the lines of one chunk; `break` on [DONE] leaves the
\* for loop, so the remaining lines of this chunk are not looked at
RECURSIVE ProcessLines(_, _)
ProcessLines(lines, fullResponse) ==
    IF lines = <<>> THEN fullResponse
    ELSE LET line == Head(lines) IN
         IF StartsWith(line, DataPrefix)
         THEN LET dataStr == Substring(line, 6) IN
              IF Trim(dataStr) = <<DoneMarker>> THEN fullResponse
              ELSE ProcessLines(Tail(lines), fullResponse \o TokenOf(dataStr))
         ELSE ProcessLines(Tail(lines), fullResponse)

ProcessChunk(chunk, fullResponse) == ProcessLines(Split(chunk), fullResponse)

\* ------------------------------------------------------------- rendering
\* marked.parse: the text between two fences becomes a <pre><code> block, the
\* text outside fences a paragraph; a fence left open runs to the end
Block(tag, text) ==
    [tag |-> tag, text |-> text, classes |-> <<>>, highlighted |-> FALSE,
     hlCalls |-> 0, indicators |-> <<>>, buttons |-> 0]

RECURSIVE MarkedFrom(_, _, _)
MarkedFrom(text, inCode, cur) ==
    IF text = <<>>
    THEN IF inCode THEN <<Block("pre", cur)>>
         ELSE IF cur = <<>> THEN <<>> ELSE <<Block("p", cur)>>
    ELSE IF Head(text) = Fence
         THEN IF inCode
              THEN <<Block("pre", cur)>> \o MarkedFrom(Tail(text), FALSE, <<>>)
              ELSE (IF cur = <<>> THEN <<>> ELSE <<Block("p", cur)>>)
                   \o MarkedFrom(Tail(text), TRUE, <<>>)
         ELSE MarkedFrom(Tail(text), inCode, Append(cur, Head(text)))

MarkedParse(text) == MarkedFrom(text, FALSE, <<>>)

\* element.classList.add
ClassListAdd(classes, c) ==
    IF \E i \in 1..Len(classes) : classes[i] = c THEN classes ELSE Append(classes, c)

\* hljs.highlightElement(codeBlock): the markup is computed from the text
\* content of the element and the classes hljs and language-* are added;
\* hlCalls counts the invocations
HljsHighlightElement(b) ==
    [b EXCEPT !.highlighted = TRUE,
              !.classes = ClassListAdd(ClassListAdd(@, "hljs"), "language-plaintext"),
              !.hlCalls = @ + 1]

\* codeBlock.className.split(' ')[0].replace('language-', '')
LangOf(classes) ==
    IF classes = <<>> THEN ""
    ELSE IF classes[1] = "language-plaintext" THEN "plaintext" ELSE classes[1]

\* HighlightBlock without the check for an existing copy button
HighlightBlockNoGuard(b) ==
    LET h == HljsHighlightElement(b) IN
    [h EXCEPT !.indicators = Append(@, LangOf(h.classes)),
              !.buttons = @ + 1]

\* the forEach body of highlightCodeBlocks for one <pre><code> block
HighlightBlock(b) ==
    LET h == HljsHighlightElement(b) IN
    IF h.buttons > 0 THEN h
    ELSE [h EXCEPT !.indicators = Append(@, LangOf(h.classes)),
                   !.buttons = @ + 1]

HighlightCodeBlocks(container) ==
    [i \in 1..Len(container) |->
        IF container[i].tag = "pre" THEN HighlightBlock(container[i])
        ELSE container[i]]

\* what a render target shows: everything but the invocation counter
Visible(container) ==
    [i \in 1..Len(container) |->
        [tag |-> container[i].tag, text |-> container[i].text,
         classes |-> container[i].classes,
         highlighted |-> container[i].highlighted,
         indicators |-> container[i].indicators,
         buttons |-> container[i].buttons]]

\* ------------------------------------------------------ the server's side
\* the event records an endpoint sends, and their bytes on the wire
Records ==
    {[k |-> "frag", c |-> f] : f \in Fragments}
    \cup {[k |-> x, c |-> <<>>] : x \in {"role", "error", "bad", "done", "comment"}}

Encode(r) ==
    CASE r.k = "frag" -> DataPrefix \o <<DeltaOpen>> \o r.c \o <<DeltaClose>>
      [] r.k = "role" -> DataPrefix \o <<RoleJson>>
      [] r.k = "error" -> DataPrefix \o <<ErrorJson>>
      [] r.k = "bad" -> DataPrefix \o <<BadJson>>
      [] r.k = "done" -> DataPrefix \o <<DoneMarker>>
      [] OTHER -> KeepAlive

RECURSIVE Wire(_)
Wire(recs) ==
    IF recs = <<>> THEN <<>>
    ELSE Encode(Head(recs)) \o Separator \o Wire(Tail(recs))

RecSeqs == UNION {[1..n -> Records] : n \in 1..MaxRecs}

\* ------------------------------------------------------------------ state
VARIABLES
    messages,        \* this.messages: the conversation log
    isTyping,        \* this.isTyping
    sendDisabled,    \* this.sendButton.disabled
    indicatorShown,  \* this.typingIndicator.style.display = 'block'
    messageInput,    \* this.messageInput.value
    chatMessages,    \* children of this.chatMessages: the rendered bubbles
    ex,              \* the calls of streamAIResponse, in submission order
    nRecs,           \* event records delivered so far
    container,       \* a render target handed to highlightCodeBlocks
    passes,          \* finalization passes applied to container
    calls,           \* the calls of getAIResponse, in call order
    kadane,          \* the array handed to calKadaneAlgo and what it returned
    script,          \* a script of programs/array: its input and what it logged
    stream           \* a response body: its records and its bytes still to be read

vars == <<messages, isTyping, sendDisabled, indicatorShown, messageInput,
          chatMessages, ex, nRecs, container, passes, calls, kadane, script,
          stream>>

Inputs == {<<" ">>, <<" ", "q", " ">>}

Msg(role, content) == [role |-> role, content |-> content]
Apology == Msg("assistant", ApologyText)

\* a bubble of the chat pane; owner = e > 0 names the element that the running
\* call e of streamAIResponse holds in assistantMessageContent (its content
\* is ex[e].elem), owner = 0 an element nothing refers to any more
Bubble(role, owner, html) == [role |-> role, owner |-> owner, html |-> html]
GreetingBubble == Bubble("assistant", 0, <<Block("p", GreetingText)>>)

Init ==
    /\ messages = <<>>
    /\ isTyping = FALSE
    /\ sendDisabled = FALSE
    /\ indicatorShown = FALSE
    /\ messageInput = <<>>
    /\ chatMessages = <<GreetingBubble>>
    /\ ex = <<>>
    /\ nRecs = 0
    /\ container = <<>>
    /\ passes = 0
    /\ calls = <<>>
    /\ kadane = <<>>
    /\ script = <<>>
    /\ stream = <<>>

\* RequestMessages built as getAIResponse builds it: the user message again
\* after the log
RequestMessagesWithUser(log) ==
    <<Msg("system", <<SystemPrompt>>)>>
    \o [i \in 1..Len(log) |-> Msg(log[i].role, log[i].content)]
    \o <<Msg("user", log[Len(log)].content)>>

\* requestBody.messages of streamAIResponse
RequestMessages(log) ==
    <<Msg("system", <<SystemPrompt>>)>>
    \o [i \in 1..Len(log) |-> Msg(log[i].role, log[i].content)]

\* addMessage(content, role): the bubble it appends
StaticBubble(content, role) ==
    Bubble(role, 0,
           IF role = "assistant" THEN HighlightCodeBlocks(MarkedParse(content))
           ELSE MarkedParse(content))

\* the guard of sendMessage
Rejects(input, typing) == Trim(input) = <<>> \/ typing

\* the locals of one call of streamAIResponse, and what the endpoint has sent
\* it: expected = the fragments that precede the end marker of their chunk,
\* sawComment = a record without the data prefix was sent,
\* sawDone = an end marker was sent, onlyFrags = nothing but fragment records
\* was sent, bad = whether a record without a usable payload was met
\* ("seen"), met after a fragment ("afterFrag"), and followed by another
\* fragment ("between")
Locals(pc, request) ==
    [pc |-> pc, request |-> request, fullResponse |-> <<>>, elem |-> <<>>,
     sawDone |-> FALSE, sawComment |-> FALSE, bad |-> "none",
     onlyFrags |-> TRUE,
     expected |-> <<>>]

\* a call that has returned or thrown: its locals are gone
Ended(x, pc) ==
    [Locals(pc, <<>>) EXCEPT !.onlyFrags = x.onlyFrags]

\* the bubble of call e, once the call has ended, is an element like the others
Release(bubbles, e, html) ==
    [i \in 1..Len(bubbles) |->
        IF bubbles[i].owner = e THEN Bubble(bubbles[i].role, 0, html)
        ELSE bubbles[i]]

\* the user enters v and submits: sendMessage up to the await of fetch inside
\* streamAIResponse
SendMessage(v) ==
    /\ ~Rejects(v, isTyping)
    /\ Len(ex) < MaxExchanges
    /\ LET message == Trim(v) IN
       /\ messages' = Append(messages, Msg("user", message))
       /\ chatMessages' = Append(chatMessages, StaticBubble(message, "user"))
       /\ ex' = Append(ex, Locals("fetch", RequestMessages(messages')))
    /\ messageInput' = <<>>
    /\ isTyping' = TRUE
    /\ sendDisabled' = TRUE
    /\ indicatorShown' = TRUE
    /\ UNCHANGED <<nRecs, container, passes, calls, kadane, script, stream>>

\* SendRejected with the guard placed after addMessage and the reset of the
\* input field
SendRejectedAfterAdd(v) ==
    /\ Rejects(v, isTyping)
    /\ messages' = Append(messages, Msg("user", Trim(v)))
    /\ chatMessages' = Append(chatMessages, StaticBubble(Trim(v), "user"))
    /\ messageInput' = <<>>
    /\ UNCHANGED <<isTyping, sendDisabled, indicatorShown, ex, nRecs,
                   container, passes, calls, kadane, script, stream>>

\* the user enters v and submits: sendMessage returning at its guard
SendRejected(v) ==
    /\ Rejects(v, isTyping)
    /\ messageInput' = v
    /\ UNCHANGED <<messages, isTyping, sendDisabled, indicatorShown,
                   chatMessages, ex, nRecs, container, passes,
                   calls, kadane, script, stream>>

\* Catch without the call of hideTypingIndicator
CatchKeepTyping(e) ==
    /\ messages' = Append(messages, Apology)
    /\ chatMessages' = Append(Release(chatMessages, e, ex[e].elem),
                              StaticBubble(ApologyText, "assistant"))
    /\ ex' = [ex EXCEPT ![e] = Ended(@, "failed")]
    /\ UNCHANGED <<isTyping, sendDisabled, indicatorShown, messageInput,
                   nRecs, container, passes, calls, kadane, script, stream>>

\* Catch taking the bubble of the failed call out of the pane
CatchRollback(e) ==
    /\ isTyping' = FALSE
    /\ sendDisabled' = FALSE
    /\ indicatorShown' = FALSE
    /\ messages' = Append(messages, Apology)
    /\ chatMessages' = Append(SelectSeq(chatMessages, LAMBDA b : b.owner # e),
                              StaticBubble(ApologyText, "assistant"))
    /\ ex' = [ex EXCEPT ![e] = Ended(@, "failed")]
    /\ UNCHANGED <<messageInput, nRecs, container, passes, calls, kadane, script,
                   stream>>

\* Catch sending the request once more instead of giving up
CatchRetry(e) ==
    /\ ex' = [ex EXCEPT ![e] = Locals("fetch", RequestMessages(messages))]
    /\ chatMessages' = SelectSeq(chatMessages, LAMBDA b : b.owner # e)
    /\ UNCHANGED <<messages, isTyping, sendDisabled, indicatorShown,
                   messageInput, nRecs, container, passes, calls, kadane,
                   script, stream>>

\* the catch block of sendMessage
Catch(e) ==
    /\ isTyping' = FALSE
    /\ sendDisabled' = FALSE
    /\ indicatorShown' = FALSE
    /\ messages' = Append(messages, Apology)
    /\ chatMessages' = Append(Release(chatMessages, e, ex[e].elem),
                              StaticBubble(ApologyText, "assistant"))
    /\ ex' = [ex EXCEPT ![e] = Ended(@, "failed")]
    /\ UNCHANGED <<messageInput, nRecs, container, passes, calls, kadane, script,
                   stream>>

\* OpenBubble without the call of hideTypingIndicator
OpenBubbleKeepTyping(e) ==
    /\ chatMessages' = Append(chatMessages, Bubble("assistant", e, <<>>))
    /\ ex' = [ex EXCEPT ![e].pc = "read", ![e].request = <<>>,
                        ![e].elem = HighlightCodeBlocks(MarkedParse(<<>>))]
    /\ UNCHANGED <<messages, isTyping, sendDisabled, indicatorShown,
                   messageInput, nRecs, container, passes, calls, kadane,
                   script, stream>>

\* lines 91-93: the empty bubble of the assistant
OpenBubble(e) ==
    /\ chatMessages' = Append(chatMessages, Bubble("assistant", e, <<>>))
    /\ ex' = [ex EXCEPT ![e].pc = "read", ![e].request = <<>>,
                        ![e].elem = HighlightCodeBlocks(MarkedParse(<<>>))]
    /\ isTyping' = FALSE
    /\ sendDisabled' = FALSE
    /\ indicatorShown' = FALSE
    /\ UNCHANGED <<messages, messageInput, nRecs, container, passes, calls, kadane,
                   script, stream>>

\* fetch settles: streamAIResponse from the await of fetch to the first
\* reader.read()
FetchResolved(e, outcome) ==
    /\ ex[e].pc = "fetch"
    /\ IF outcome = "ok" THEN OpenBubble(e) ELSE Catch(e)

RECURSIVE FragsBeforeDone(_)
FragsBeforeDone(recs) ==
    IF recs = <<>> \/ Head(recs).k = "done" THEN <<>>
    ELSE (IF Head(recs).k = "frag" THEN Head(recs).c ELSE <<>>)
         \o FragsBeforeDone(Tail(recs))

RECURSIVE BadStatus(_, _, _)
BadStatus(recs, status, hasFrag) ==
    IF recs = <<>> \/ Head(recs).k = "done" THEN status
    ELSE IF Head(recs).k \in {"bad", "error"}
         THEN BadStatus(Tail(recs),
                        IF hasFrag /\ status # "between" THEN "afterFrag"
                        ELSE IF status = "none" THEN "seen" ELSE status,
                        hasFrag)
    ELSE IF Head(recs).k = "frag"
         THEN BadStatus(Tail(recs),
                        IF status = "afterFrag" THEN "between" ELSE status, TRUE)
    ELSE BadStatus(Tail(recs), status, hasFrag)

\* ReadChunk with one buffer shared by all the calls that are reading
ReadChunkSharedBuffer(e, recs) ==
    LET full == ProcessChunk(Wire(recs), ex[e].fullResponse)
    IN /\ ex[e].pc = "read"
       /\ nRecs + Len(recs) <= MaxRecs
       /\ nRecs' = nRecs + Len(recs)
       /\ ex' = [x \in DOMAIN ex |->
                   IF ex[x].pc # "read" THEN ex[x]
                   ELSE [ex[x] EXCEPT
                           !.fullResponse = full,
                           !.elem = MarkedParse(full),
                           !.onlyFrags = IF x = e
                                         THEN @ /\ \A i \in 1..Len(recs) : recs[i].k = "frag"
                                         ELSE @,
                           !.expected = IF x = e THEN @ \o FragsBeforeDone(recs)
                                        ELSE @]]
       /\ UNCHANGED <<messages, isTyping, sendDisabled, indicatorShown,
                      messageInput, chatMessages, container, passes,
                   calls, kadane, script, stream>>

\* ReadChunk adding the markup of the new tokens to the markup already shown
ReadChunkAppendMarkup(e, recs) ==
    LET full == ProcessChunk(Wire(recs), ex[e].fullResponse)
        added == SubSeq(full, Len(ex[e].fullResponse) + 1, Len(full))
    IN /\ ex[e].pc = "read"
       /\ nRecs + Len(recs) <= MaxRecs
       /\ nRecs' = nRecs + Len(recs)
       /\ ex' = [ex EXCEPT
                   ![e].fullResponse = full,
                   ![e].elem = @ \o MarkedParse(added),
                   ![e].sawDone = @ \/ \E i \in 1..Len(recs) : recs[i].k = "done",
                   ![e].sawComment = @ \/ \E i \in 1..Len(recs) : recs[i].k = "comment",
                   ![e].bad = BadStatus(recs, @, ex[e].expected # <<>>),
                   ![e].onlyFrags = @ /\ \A i \in 1..Len(recs) : recs[i].k = "frag",
                   ![e].expected = @ \o FragsBeforeDone(recs)]
       /\ UNCHANGED <<messages, isTyping, sendDisabled, indicatorShown,
                      messageInput, chatMessages, container, passes,
                   calls, kadane, script, stream>>

\* reader.read() yields a chunk: the body of the while loop
ReadChunk(e, recs) ==
    LET full == ProcessChunk(Wire(recs), ex[e].fullResponse)
    IN /\ ex[e].pc = "read"
       /\ nRecs + Len(recs) <= MaxRecs
       /\ nRecs' = nRecs + Len(recs)
       /\ ex' = [ex EXCEPT
                   ![e].fullResponse = full,
                   ![e].elem = IF full # ex[e].fullResponse THEN MarkedParse(full) ELSE @,
                   ![e].sawDone = @ \/ \E i \in 1..Len(recs) : recs[i].k = "done",
                   ![e].sawComment = @ \/ \E i \in 1..Len(recs) : recs[i].k = "comment",
                   ![e].bad = BadStatus(recs, @, ex[e].expected # <<>>),
                   ![e].onlyFrags = @ /\ \A i \in 1..Len(recs) : recs[i].k = "frag",
                   ![e].expected = @ \o FragsBeforeDone(recs)]
       /\ UNCHANGED <<messages, isTyping, sendDisabled, indicatorShown,
                      messageInput, chatMessages, container, passes,
                   calls, kadane, script, stream>>

\* Commit without the push to this.messages
CommitNoPush(e) ==
    /\ ex[e].pc = "read"
    /\ chatMessages' = Release(chatMessages, e, HighlightCodeBlocks(ex[e].elem))
    /\ ex' = [ex EXCEPT ![e] = Ended(@, "done")]
    /\ UNCHANGED <<messages, isTyping, sendDisabled, indicatorShown,
                   messageInput, nRecs, container, passes, calls, kadane,
                   script, stream>>

\* Commit putting the assistant message at the front of this.messages
CommitUnshift(e) ==
    /\ ex[e].pc = "read"
    /\ messages' = IF ex[e].fullResponse # <<>>
                   THEN <<Msg("assistant", ex[e].fullResponse)>> \o messages
                   ELSE messages
    /\ chatMessages' = Release(chatMessages, e, HighlightCodeBlocks(ex[e].elem))
    /\ ex' = [ex EXCEPT ![e] = Ended(@, "done")]
    /\ UNCHANGED <<isTyping, sendDisabled, indicatorShown, messageInput,
                   nRecs, container, passes, calls, kadane, script, stream>>

\* Commit without the test of fullResponse
CommitEvenEmpty(e) ==
    /\ ex[e].pc = "read"
    /\ messages' = Append(messages, Msg("assistant", ex[e].fullResponse))
    /\ chatMessages' = Release(chatMessages, e, HighlightCodeBlocks(ex[e].elem))
    /\ ex' = [ex EXCEPT ![e] = Ended(@, "done")]
    /\ UNCHANGED <<isTyping, sendDisabled, indicatorShown, messageInput,
                   nRecs, container, passes, calls, kadane, script, stream>>

\* reader.read() yields done: streamAIResponse after the while loop
Commit(e) ==
    /\ ex[e].pc = "read"
    /\ messages' = IF ex[e].fullResponse # <<>>
                   THEN Append(messages, Msg("assistant", ex[e].fullResponse))
                   ELSE messages
    /\ chatMessages' = Release(chatMessages, e, HighlightCodeBlocks(ex[e].elem))
    /\ ex' = [ex EXCEPT ![e] = Ended(@, "done")]
    /\ UNCHANGED <<isTyping, sendDisabled, indicatorShown, messageInput,
                   nRecs, container, passes, calls, kadane, script, stream>>

\* reader.read() rejects: the error reaches the catch block of sendMessage
ReadFails(e) ==
    /\ ex[e].pc = "read"
    /\ Catch(e)

\* clearChat resetting the pane but not this.messages
ClearChatKeepLog ==
    /\ chatMessages' = <<GreetingBubble>>
    /\ UNCHANGED <<messages, isTyping, sendDisabled, indicatorShown,
                   messageInput, ex, nRecs, container, passes,
                   calls, kadane, script, stream>>

\* clearChat
ClearChat ==
    /\ messages' = <<>>
    /\ chatMessages' = <<GreetingBubble>>
    /\ UNCHANGED <<isTyping, sendDisabled, indicatorShown, messageInput, ex,
                   nRecs, container, passes, calls, kadane, script, stream>>

Exchanges == DOMAIN ex

\* a session: several submissions, the endpoint answering each with chunks
\* of one text fragment
FragmentChunks == {<<[k |-> "frag", c |-> f]>> : f \in Fragments}

Next ==
    \/ \E v \in Inputs : SendMessage(v)
    \/ \E v \in Inputs : SendRejected(v)
    \/ \E e \in Exchanges, o \in {"ok", "httpError", "rejected"} : FetchResolved(e, o)
    \/ \E e \in Exchanges, recs \in FragmentChunks : nRecs < MaxReads /\ ReadChunk(e, recs)
    \/ \E e \in Exchanges : Commit(e)
    \/ \E e \in Exchanges : ReadFails(e)
    \/ ClearChat

Spec == Init /\ [][Next]_vars

\* a session in which the network answers: every fetch settles and every
\* stream ends or fails, sooner or later
FairSpec ==
    /\ Spec
    /\ WF_vars(\E e \in Exchanges, o \in {"ok", "httpError", "rejected"} :
                   FetchResolved(e, o))
    /\ WF_vars(\E e \in Exchanges : Commit(e) \/ ReadFails(e))

\* the first exchange of a session, the endpoint answering with chunks of any
\* event records
NextStream ==
    \/ \E v \in Inputs : ex = <<>> /\ SendMessage(v)
    \/ \E v \in Inputs : SendRejected(v)
    \/ \E e \in Exchanges, o \in {"ok", "httpError", "rejected"} : FetchResolved(e, o)
    \/ \E e \in Exchanges, recs \in RecSeqs : ReadChunk(e, recs)
    \/ \E e \in Exchanges : Commit(e)
    \/ \E e \in Exchanges : ReadFails(e)
    \/ ClearChat

StreamSpec == Init /\ [][NextStream]_vars

\* ------------------------------- the finalization pass on its own target
Texts(n) == UNION {[1..m -> TextChars] : m \in 0..n}

InitHL ==
    /\ messages = <<>>
    /\ isTyping = FALSE
    /\ sendDisabled = FALSE
    /\ indicatorShown = FALSE
    /\ messageInput = <<>>
    /\ chatMessages = <<GreetingBubble>>
    /\ ex = <<>>
    /\ nRecs = 0
    /\ container \in {MarkedParse(t) : t \in Texts(MaxBlockText)}
    /\ passes = 0
    /\ calls = <<>>
    /\ kadane = <<>>
    /\ script = <<>>
    /\ stream = <<>>

Finalize ==
    /\ passes < MaxPasses
    /\ container' = HighlightCodeBlocks(container)
    /\ passes' = passes + 1
    /\ UNCHANGED <<messages, isTyping, sendDisabled, indicatorShown,
                   messageInput, chatMessages, ex, nRecs, calls, kadane,
                   script, stream>>

NextHL == Finalize

SpecHL == InitHL /\ [][NextHL]_vars

TypeOK ==
    /\ isTyping \in BOOLEAN
    /\ Len(ex) <= MaxExchanges

\* ------------------------------------- a response body read in any pieces
\* the bodies made of content fragments only
FragmentSeqs ==
    UNION {[1..n -> {[k |-> "frag", c |-> f] : f \in Fragments}] : n \in 1..MaxBodyRecs}

InitBytes ==
    /\ messages = <<>>
    /\ isTyping = FALSE
    /\ sendDisabled = FALSE
    /\ indicatorShown = FALSE
    /\ messageInput = <<>>
    /\ chatMessages = <<GreetingBubble>>
    /\ ex = <<>>
    /\ nRecs = 0
    /\ container = <<>>
    /\ passes = 0
    /\ calls = <<>>
    /\ kadane = <<>>
    /\ script = <<>>
    /\ stream \in {[recs |-> r, rest |-> Wire(r)] : r \in FragmentSeqs}

\* reader.read() yields the next n bytes of the body, wherever that cuts it:
\* the body of the while loop
ReadBytes(e, n) ==
    LET chunk == SubSeq(stream.rest, 1, n)
        full == ProcessChunk(chunk, ex[e].fullResponse)
    IN /\ ex[e].pc = "read"
       /\ n <= Len(stream.rest)
       /\ stream' = [stream EXCEPT !.rest = SubSeq(@, n + 1, Len(@))]
       /\ ex' = [ex EXCEPT
                   ![e].fullResponse = full,
                   ![e].elem = IF full # ex[e].fullResponse THEN MarkedParse(full) ELSE @]
       /\ UNCHANGED <<messages, isTyping, sendDisabled, indicatorShown,
                      messageInput, chatMessages, nRecs, container, passes,
                      calls, kadane, script>>

\* the first exchange of a session, its body arriving in pieces of any size
NextBytes ==
    \/ \E v \in Inputs : ex = <<>> /\ SendMessage(v)
    \/ \E e \in Exchanges, o \in {"ok", "httpError", "rejected"} : FetchResolved(e, o)
    \/ \E e \in Exchanges, n \in 1..Len(stream.rest) : ReadBytes(e, n)
    \/ \E e \in Exchanges : stream.rest = <<>> /\ Commit(e)
    \/ \E e \in Exchanges : ReadFails(e)

BytesSpec == InitBytes /\ [][NextBytes]_vars

\* ------------------------------------------------ the non-streaming call
\* the JSON documents a completion endpoint answers a non-streaming request
\* with, one lexeme per symbol
MessageOpen == "{choices:[{message:{role:assistant,content:"
NoContentJson == "{choices:[{message:{role:assistant,tool_calls:[]}}]}"
NoMessageJson == "{choices:[{finish_reason:stop}]}"
NoChoiceJson == "{choices:[]}"

Bodies ==
    {<<MessageOpen>> \o t \o <<DeltaClose>> : t \in {<<>>, <<"a">>}}
    \cup {<<NoContentJson>>, <<NoMessageJson>>, <<NoChoiceJson>>,
          <<ErrorJson>>, <<BadJson>>}

\* the values a call can settle with
Undefined == [type |-> "undefined", value |-> <<>>]
String(s) == [type |-> "string", value |-> s]

\* response.json(): the body parsed, or a rejection
ResponseJson(body) ==
    LET s == Trim(body) IN
    IF /\ Len(s) >= 2
       /\ s[1] = MessageOpen
       /\ s[Len(s)] = DeltaClose
       /\ \A i \in 2..(Len(s) - 1) : s[i] \in TextChars
    THEN [ok |-> TRUE,
          value |-> [choices |-> <<[message |->
                        [role |-> <<"assistant">>,
                         content |-> SubSeq(s, 2, Len(s) - 1)]]>>]]
    ELSE IF s = <<NoContentJson>>
    THEN [ok |-> TRUE,
          value |-> [choices |-> <<[message |->
                        [role |-> <<"assistant">>, tool_calls |-> <<>>]]>>]]
    ELSE IF s = <<NoMessageJson>>
    THEN [ok |-> TRUE, value |-> [choices |-> <<[finish_reason |-> <<"stop">>]>>]]
    ELSE IF s = <<NoChoiceJson>>
    THEN [ok |-> TRUE, value |-> [choices |-> <<>>]]
    ELSE IF s = <<ErrorJson>>
    THEN [ok |-> TRUE, value |-> [error |-> <<"overloaded">>]]
    ELSE [ok |-> FALSE, value |-> [error |-> <<"SyntaxError">>]]

\* data.choices[0].message.content: reading a property of undefined throws,
\* reading a property an object does not have gives undefined
MessageContent(data) ==
    IF "choices" \notin DOMAIN data THEN [thrown |-> TRUE, value |-> Undefined]
    ELSE IF Len(data.choices) = 0 THEN [thrown |-> TRUE, value |-> Undefined]
    ELSE IF "message" \notin DOMAIN data.choices[1]
    THEN [thrown |-> TRUE, value |-> Undefined]
    ELSE IF "content" \notin DOMAIN data.choices[1].message
    THEN [thrown |-> FALSE, value |-> Undefined]
    ELSE [thrown |-> FALSE, value |-> String(data.choices[1].message.content)]

\* requestBody.messages of getAIResponse
GetAIRequestMessages(log, userMessage) ==
    <<Msg("system", <<SystemPrompt>>)>>
    \o [i \in 1..Len(log) |-> Msg(log[i].role, log[i].content)]
    \o <<Msg("user", userMessage)>>

\* getAIResponse(userMessage) up to the await of fetch
GetAIResponse(userMessage) ==
    /\ Len(calls) < MaxCalls
    /\ calls' = Append(calls,
                       [pc |-> "fetch",
                        requests |-> <<GetAIRequestMessages(messages, userMessage)>>,
                        result |-> Undefined])
    /\ UNCHANGED <<messages, isTyping, sendDisabled, indicatorShown,
                   messageInput, chatMessages, ex, nRecs, container, passes,
                   kadane, script, stream>>

\* fetch settles: getAIResponse from the await of fetch to that of
\* response.json(), or to the throw on a status that is not ok
GetFetchResolved(c, outcome) ==
    /\ calls[c].pc = "fetch"
    /\ calls' = [calls EXCEPT ![c].pc = IF outcome = "ok" THEN "json" ELSE "thrown",
                              ![c].requests = <<>>]
    /\ UNCHANGED <<messages, isTyping, sendDisabled, indicatorShown,
                   messageInput, chatMessages, ex, nRecs, container, passes,
                   kadane, script, stream>>

\* response.json() settles: the return statement of getAIResponse
GetJsonResolved(c, body) ==
    /\ calls[c].pc = "json"
    /\ LET parsed == ResponseJson(body)
           got == MessageContent(parsed.value)
       IN calls' = [calls EXCEPT
                      ![c].pc = IF ~parsed.ok \/ got.thrown THEN "thrown"
                                ELSE "returned",
                      ![c].result = IF ~parsed.ok \/ got.thrown THEN Undefined
                                    ELSE got.value]
    /\ UNCHANGED <<messages, isTyping, sendDisabled, indicatorShown,
                   messageInput, chatMessages, ex, nRecs, container, passes,
                   kadane, script, stream>>

\* the first exchange of a session in which something calls getAIResponse
NextCall ==
    \/ \E v \in Inputs : ex = <<>> /\ SendMessage(v)
    \/ \E e \in Exchanges, o \in {"ok", "httpError", "rejected"} : FetchResolved(e, o)
    \/ \E e \in Exchanges, recs \in FragmentChunks : nRecs < MaxReads /\ ReadChunk(e, recs)
    \/ \E e \in Exchanges : Commit(e)
    \/ \E e \in Exchanges : ReadFails(e)
    \/ \E v \in Inputs : GetAIResponse(v)
    \/ \E c \in DOMAIN calls, o \in {"ok", "httpError", "rejected"} : GetFetchResolved(c, o)
    \/ \E c \in DOMAIN calls, body \in Bodies : GetJsonResolved(c, body)
    \/ ClearChat

CallSpec == Init /\ [][NextCall]_vars

\* ------------------------------------------------------- calKadaneAlgo
Max(a, b) == IF a >= b THEN a ELSE b

\* the for loop of calKadaneAlgo in part_003, from index i (1-based) on
RECURSIVE KadaneLoopPart003(_, _, _, _)
KadaneLoopPart003(arr, i, maxSoFar, maxEnding) ==
    IF i > Len(arr) THEN maxSoFar
    ELSE LET ending == Max(arr[i], maxEnding + arr[i])
         IN KadaneLoopPart003(arr, i + 1, Max(maxSoFar, ending), ending)

\* calKadaneAlgo of part_003: both variables start at arr[0] and the loop
\* starts at index 0
CalKadaneAlgoPart003(arr) == KadaneLoopPart003(arr, 1, arr[1], arr[1])

\* the for loop of calKadaneAlgo in kadanesAlgo.js, from index (1-based) on
RECURSIVE KadaneLoop(_, _, _, _)
KadaneLoop(arr, index, currentSum, maxSum) ==
    IF index > Len(arr) THEN maxSum
    ELSE LET element == arr[index]
             current == Max(element, currentSum + element)
         IN KadaneLoop(arr, index + 1, current, Max(current, maxSum))

\* calKadaneAlgo of kadanesAlgo.js: both variables start at 0
CalKadaneAlgo(arr) == KadaneLoop(arr, 1, 0, 0)

\* the non-empty arrays of small integers
Arrays == UNION {[1..n -> (0 - MaxAbs)..MaxAbs] : n \in 1..MaxArrLen}

InitKadane ==
    /\ messages = <<>>
    /\ isTyping = FALSE
    /\ sendDisabled = FALSE
    /\ indicatorShown = FALSE
    /\ messageInput = <<>>
    /\ chatMessages = <<GreetingBubble>>
    /\ ex = <<>>
    /\ nRecs = 0
    /\ container = <<>>
    /\ passes = 0
    /\ calls = <<>>
    /\ kadane \in {[arr |-> a, file |-> "none", result |-> 0] : a \in Arrays}
    /\ script = <<>>
    /\ stream = <<>>

\* console.log(calKadaneAlgo(arr)) of part_003
RunPart003 ==
    /\ kadane.file = "none"
    /\ kadane' = [kadane EXCEPT !.file = "part_003",
                                !.result = CalKadaneAlgoPart003(kadane.arr)]
    /\ UNCHANGED <<messages, isTyping, sendDisabled, indicatorShown,
                   messageInput, chatMessages, ex, nRecs, container, passes,
                   calls, script, stream>>

\* console.log(calKadaneAlgo(arr)) of kadanesAlgo.js
RunKadanesAlgo ==
    /\ kadane.file = "none"
    /\ kadane' = [kadane EXCEPT !.file = "kadanesAlgo.js",
                                !.result = CalKadaneAlgo(kadane.arr)]
    /\ UNCHANGED <<messages, isTyping, sendDisabled, indicatorShown,
                   messageInput, chatMessages, ex, nRecs, container, passes,
                   calls, script, stream>>

NextKadane ==
    \/ RunPart003
    \/ RunKadanesAlgo

KadaneSpec == InitKadane /\ [][NextKadane]_vars

\* --------------------------------------------- the scripts of programs/array
\* every script is a function and one console.log of a call of it; the chat
\* application is not running beside it
ChatVars ==
    <<messages, isTyping, sendDisabled, indicatorShown, messageInput,
      chatMessages, ex, nRecs, container, passes, calls, kadane, stream>>

ChatIdle ==
    /\ messages = <<>>
    /\ isTyping = FALSE
    /\ sendDisabled = FALSE
    /\ indicatorShown = FALSE
    /\ messageInput = <<>>
    /\ chatMessages = <<GreetingBubble>>
    /\ ex = <<>>
    /\ nRecs = 0
    /\ container = <<>>
    /\ passes = 0
    /\ calls = <<>>
    /\ kadane = <<>>
    /\ stream = <<>>

\* ----------------------------------------------------------- mergeInterval
\* arr.sort((a, b) => a[0] - b[0]) as a permutation of the positions of arr:
\* the sort is stable, positions with equal starts keep their order
RECURSIVE InsertByStart(_, _, _)
InsertByStart(arr, order, p) ==
    IF order = <<>> THEN <<p>>
    ELSE IF arr[Head(order)][1] - arr[p][1] > 0
         THEN <<p>> \o order
         ELSE <<Head(order)>> \o InsertByStart(arr, Tail(order), p)

RECURSIVE SortByStart(_, _)
SortByStart(arr, n) ==
    IF n = 0 THEN <<>>
    ELSE InsertByStart(arr, SortByStart(arr, n - 1), n)

\* the for loop of mergeInterval from index i (1-based) on. The elements of
\* interval and of merge are the same array objects: obj[r] is the content
\* of the object at position r of the sorted array, merge holds positions
RECURSIVE MergeLoop(_, _, _)
MergeLoop(obj, i, merge) ==
    IF i > Len(obj) THEN [k \in 1..Len(merge) |-> obj[merge[k]]]
    ELSE LET pushed == IF i = 1 THEN Append(merge, i) ELSE merge
             last == pushed[Len(pushed)]
         IN IF obj[last][2] > obj[i][1]
            THEN MergeLoop([obj EXCEPT ![last][2] = obj[i][2]], i + 1, pushed)
            ELSE MergeLoop(obj, i + 1, Append(pushed, i))

MergeInterval(arr) ==
    LET order == SortByStart(arr, Len(arr))
        interval == [k \in 1..Len(arr) |-> arr[order[k]]]
    IN MergeLoop(interval, 1, <<>>)

\* the intervals [start, end] with start <= end over a few points
Intervals == {iv \in (0..MaxPoint) \X (0..MaxPoint) : iv[1] <= iv[2]}

IntervalArrays == UNION {[1..n -> Intervals] : n \in 0..MaxIntervals}

InitMerge ==
    /\ ChatIdle
    /\ script \in {[arr |-> a, logged |-> FALSE, result |-> <<>>] : a \in IntervalArrays}

\* console.log(mergeInterval(arr))
RunMergeInterval ==
    /\ ~script.logged
    /\ script' = [script EXCEPT !.logged = TRUE,
                                !.result = MergeInterval(script.arr)]
    /\ UNCHANGED ChatVars

NextMerge == RunMergeInterval

MergeSpec == InitMerge /\ [][NextMerge]_vars

\* ---------------------------------------------------- rotateArrWithKNumber
\* the for loop: the slices arr.slice(index, index + k), index (0-based)
\* going up by k; slice stops at the end of the array
RECURSIVE Slices(_, _, _)
Slices(arr, index, k) ==
    IF index >= Len(arr) THEN <<>>
    ELSE LET end == IF index + k < Len(arr) THEN index + k ELSE Len(arr)
         IN <<SubSeq(arr, index + 1, end)>> \o Slices(arr, index + k, k)

\* Array.prototype.reverse
Reverse(s) == [i \in 1..Len(s) |-> s[Len(s) + 1 - i]]

\* Array.prototype.flat over an array of arrays
RECURSIVE Flat(_)
Flat(ss) == IF ss = <<>> THEN <<>> ELSE Head(ss) \o Flat(Tail(ss))

RotateArrWithKNumber(arr, k) == Flat(Reverse(Slices(arr, 0, k)))

InitRotate ==
    /\ ChatIdle
    /\ script \in {[arr |-> a, k |-> k, logged |-> FALSE, result |-> <<>>] :
                       a \in Arrays, k \in 1..MaxArrLen}
    /\ script.k <= Len(script.arr)

\* console.log(rotateArrWithKNumber(arr, k))
RunRotateArrWithKNumber ==
    /\ ~script.logged
    /\ script' = [script EXCEPT !.logged = TRUE,
                                !.result = RotateArrWithKNumber(script.arr, script.k)]
    /\ UNCHANGED ChatVars

NextRotate == RunRotateArrWithKNumber

RotateSpec == InitRotate /\ [][NextRotate]_vars

\* ------------------------------------------------------------ binarySearch
\* the values a search returns
Number(n) == [type |-> "number", value |-> n]
False == [type |-> "boolean", value |-> 0]

\* the sorted arrays of distinct integers over 1..MaxElem
RECURSIVE Ascending(_, _)
Ascending(S, from) ==
    IF from > MaxElem THEN <<>>
    ELSE (IF from \in S THEN <<from>> ELSE <<>>) \o Ascending(S, from + 1)

SortedArrays == {Ascending(S, 1) : S \in SUBSET (1..MaxElem)}

InArray(arr, target) == \E i \in 1..Len(arr) : arr[i] = target

\* one frame of a recursive search: indices are those of the script (from
\* 0), depth is the number of frames on the call stack
Frame(file, arr, target, left, right) ==
    [file |-> file, arr |-> arr, target |-> target, left |-> left,
     right |-> right, depth |-> 1, pc |-> "running", result |-> False]

\* a recursive call: a frame more, or RangeError when the stack is full
Recurse(f, left, right) ==
    IF f.depth >= StackLimit THEN [f EXCEPT !.pc = "RangeError"]
    ELSE [f EXCEPT !.left = left, !.right = right, !.depth = @ + 1]

\* return through all the frames: each of them returns what its call returned
Return(f, value) == [f EXCEPT !.pc = "returned", !.result = value]

\* the body of binarySearch(left, right, target, arr) of
\* My_Study_Material/programs/array/binarySearch.js
BinarySearchStudy(f) ==
    IF f.left > f.right THEN Return(f, False)
    ELSE LET mid == (f.left + f.right) \div 2 IN
         IF f.target = f.arr[mid + 1] THEN Return(f, Number(f.arr[mid + 1]))
         ELSE IF mid > f.left THEN Recurse(f, mid, f.right)
         ELSE Recurse(f, f.left, mid)

\* the body of binarySearch(arr, target, left, right) of
\* programs/array/binarySearch.js
BinarySearch(f) ==
    IF f.left > f.right THEN Return(f, Number(0 - 1))
    ELSE LET mid == (f.left + f.right) \div 2 IN
         IF f.arr[mid + 1] = f.target THEN Return(f, Number(mid))
         ELSE IF f.arr[mid + 1] > f.target THEN Recurse(f, f.left, mid)
         ELSE Recurse(f, mid, f.right)

InitSearch ==
    /\ ChatIdle
    /\ script \in {Frame(file, a, t, 0, Len(a) - 1) :
                       file \in {"My_Study_Material", "programs"},
                       a \in SortedArrays, t \in 0..(MaxElem + 1)}

\* one frame of the search of My_Study_Material runs
StepBinarySearchStudy ==
    /\ script.pc = "running"
    /\ script.file = "My_Study_Material"
    /\ script' = BinarySearchStudy(script)
    /\ UNCHANGED ChatVars

\* one frame of the search of programs runs
StepBinarySearch ==
    /\ script.pc = "running"
    /\ script.file = "programs"
    /\ script' = BinarySearch(script)
    /\ UNCHANGED ChatVars

NextSearch ==
    \/ StepBinarySearchStudy
    \/ StepBinarySearch

SearchSpec == InitSearch /\ [][NextSearch]_vars

\* --------------------------------------------------- sortedArrayWithBinary
\* arr turned to the left by r places
RotateLeft(arr, r) ==
    [i \in 1..Len(arr) |-> arr[((i - 1 + r) % Len(arr)) + 1]]

RotatedArrays ==
    {RotateLeft(a, r) : a \in SortedArrays \ {<<>>}, r \in 0..(MaxElem - 1)}

\* the body of sortedArrayWithBinary(arr, target, left, right)
SortedArrayWithBinary(f) ==
    LET mid == (f.left + f.right) \div 2 IN
    IF f.arr[mid + 1] = f.target THEN Return(f, Number(mid))
    ELSE IF f.arr[f.left + 1] < f.arr[mid + 1]
    THEN IF f.arr[f.left + 1] <= f.target /\ f.target < f.arr[mid + 1]
         THEN Recurse(f, f.left, mid)
         ELSE Recurse(f, mid, f.right)
    ELSE IF f.arr[f.right + 1] <= f.target /\ f.target < f.arr[mid + 1]
         THEN Recurse(f, mid, f.right)
         ELSE Recurse(f, f.left, mid)

InitRotatedSearch ==
    /\ ChatIdle
    /\ script \in {Frame("part_002", a, t, 0, Len(a) - 1) :
                       a \in RotatedArrays, t \in 1..MaxElem}
    /\ InArray(script.arr, script.target)

\* one frame of sortedArrayWithBinary runs
StepSortedArrayWithBinary ==
    /\ script.pc = "running"
    /\ script' = SortedArrayWithBinary(script)
    /\ UNCHANGED ChatVars

NextRotatedSearch == StepSortedArrayWithBinary

RotatedSearchSpec == InitRotatedSearch /\ [][NextRotatedSearch]_vars

\* ------------------------------------------------------------ properties
InFlight == {e \in Exchanges : ex[e].pc \in {"fetch", "read"}}

\* what the chat pane shows, bubble by bubble
Rendered ==
    [i \in 1..Len(chatMessages) |->
        [role |-> chatMessages[i].role,
         html |-> IF chatMessages[i].owner = 0 THEN chatMessages[i].html
                  ELSE ex[chatMessages[i].owner].elem]]

LastMessage == messages[Len(messages)]

Apologies(log) == Cardinality({i \in 1..Len(log) : log[i] = Apology})

PreBlocks(c) == {i \in 1..Len(c) : c[i].tag = "pre"}

\* C1: at most one assistant response is in flight in every reachable state
\* (a submission made while one is in flight starts no second request).
C1_AtMostOneInFlight == Cardinality(InFlight) <= 1

C3_FailureAppendsOneApology ==
    [][/\ \A e \in Exchanges :
            (ex[e].pc \in {"fetch", "read"} /\ ex'[e].pc = "failed")
            => /\ messages' = Append(messages, Apology)
               /\ ~isTyping'
               /\ ~sendDisabled'
               /\ ~Rejects(<<"r">>, isTyping')
       /\ (\A e \in Exchanges : ex'[e].pc = "failed" => ex[e].pc = "failed")
            => Apologies(messages') <= Apologies(messages)]_vars

C3_Witness ==
    /\ Len(ex) = 1
    /\ ex[1].pc = "failed"
    /\ Len(messages) = 2
    /\ LastMessage = Apology
    /\ \E i \in 1..Len(chatMessages) :
           chatMessages[i] = Bubble("assistant", 0, MarkedParse(<<"a">>))
    /\ ~isTyping
    /\ ~sendDisabled

\* C4: a record whose payload is not valid JSON, or lacks the choices
\* structure, is skipped: the step that meets it leaves the stream open and
\* the log and the busy flag untouched, and the buffer is the concatenation
\* of the fragments of the valid records before and after it.
C4_MalformedRecordSkipped ==
    [][\A e \in Exchanges :
        (ex[e].pc = "read" /\ e \in DOMAIN ex' /\ ex'[e].bad # "none")
        => /\ ex[e].bad = "none"
              => (ex'[e].pc = "read" /\ messages' = messages
                  /\ isTyping' = isTyping)
           /\ ex'[e].pc = "read" => ex'[e].fullResponse = ex'[e].expected]_vars

C4_Witness ==
    \E e \in Exchanges :
        /\ ex[e].pc = "read"
        /\ ex[e].bad = "between"
        /\ ex[e].fullResponse = <<"a", Fence>>

\* C5: once an end marker has been received, nothing is appended to the
\* buffer any more.
C5_NothingAfterDone ==
    [][\A e \in Exchanges :
        (ex[e].pc = "read" /\ ex[e].sawDone /\ ex'[e].pc = "read")
        => ex'[e].fullResponse = ex[e].fullResponse]_vars

\* C6: receipt of the end marker ends the exchange: the read loop is left by
\* the step that processes the marker (no later step of the client can leave
\* it when the endpoint sends nothing more), so no call is still reading once
\* it has received an end marker.
C6_ExitsOnDone ==
    \A e \in Exchanges : ~(ex[e].pc = "read" /\ ex[e].sawDone)

\* C7 as stated: clearChat leaves the log holding exactly the seeded
\* assistant greeting.
C7_ClearSeedsLog ==
    [][ClearChat => messages' = <<Msg("assistant", GreetingText)>>]_vars

\* C7 amended: clearChat leaves the log empty and the pane showing exactly
\* one bubble, the seeded assistant greeting.
C7_ClearEmptiesLog ==
    [][ClearChat =>
        /\ messages' = <<>>
        /\ Rendered' = <<[role |-> "assistant",
                          html |-> <<Block("p", GreetingText)>>]>>]_vars

C7_Witness ==
    /\ ex # <<>>
    /\ InFlight # {}
    /\ messages = <<>>
    /\ Len(chatMessages) = 1

\* C8: the messages of a request are the system instruction, then the log as
\* it was before the submission, roles and contents unchanged, then the
\* submitted user message, once.
C8_RequestIsSystemThenLog ==
    [][Len(ex') = Len(ex) + 1 =>
        LET req == ex'[Len(ex')].request IN
        /\ Len(req) = Len(messages) + 2
        /\ req[1] = Msg("system", <<SystemPrompt>>)
        /\ \A i \in 1..Len(messages) :
               req[i + 1] = Msg(messages[i].role, messages[i].content)
        /\ req[Len(req)].role = "user"
        /\ \E v \in Inputs : req[Len(req)].content = Trim(v)
        /\ req[Len(req)] = Msg(messages'[Len(messages')].role,
                               messages'[Len(messages')].content)]_vars

C8_Witness ==
    /\ Len(ex) = 2
    /\ ex[2].pc = "fetch"
    /\ Len(ex[2].request) = 4
    /\ ex[2].request[3] = Msg("assistant", <<"a", Fence>>)
    /\ ex[2].request[4].role = "user"

\* C9: at every step of a streaming exchange the buffer is the concatenation,
\* in delivery order, of the fragments of the valid records processed so
\* far, and each buffer value is a prefix of the next.
C9_BufferInArrivalOrder ==
    [][\A e \in Exchanges' :
        ex'[e].pc = "read"
        => /\ ex'[e].fullResponse = ex'[e].expected
           /\ (e \in Exchanges /\ ex[e].pc = "read")
              => IsPrefix(ex[e].fullResponse, ex'[e].fullResponse)]_vars

C9_Witness ==
    \E e \in Exchanges :
        /\ ex[e].pc = "read"
        /\ nRecs = 3
        /\ ex[e].fullResponse = <<"a", Fence, "a">>

\* C10 as stated: after any number of finalization passes every fenced code
\* region has had its highlighting applied exactly once and carries one copy
\* button and one language indicator.
C10_HighlightedExactlyOnce ==
    passes >= 1 =>
        \A i \in PreBlocks(container) :
            /\ container[i].hlCalls = 1
            /\ container[i].buttons = 1
            /\ Len(container[i].indicators) = 1

\* C10 amended: after a finalization pass, a further pass leaves what the
\* render target shows unchanged, and every fenced code region is highlighted
\* and carries one copy button and one language indicator (hljs is invoked
\* again in every pass).
C10_FinalizationIdempotent ==
    passes >= 1 =>
        /\ Visible(HighlightCodeBlocks(container)) = Visible(container)
        /\ \A i \in PreBlocks(container) :
               /\ container[i].highlighted
               /\ container[i].buttons = 1
               /\ Len(container[i].indicators) = 1

C10_Witness ==
    /\ passes = 2
    /\ Cardinality(PreBlocks(container)) = 2
    /\ \A i \in PreBlocks(container) : container[i].hlCalls = 2

ApologyShown ==
    [role |-> "assistant", html |-> HighlightCodeBlocks(MarkedParse(ApologyText))]

\* C11: when a read fails, every bubble of the pane, the partially rendered
\* one of the failing call included, shows what it showed before, and the
\* apology is one further bubble after them.
C11_PartialOutputKept ==
    [][\A e \in Exchanges :
        (ex[e].pc = "read" /\ ex'[e].pc = "failed")
        => Rendered' = Append(Rendered, ApologyShown)]_vars

C11_Witness ==
    /\ Len(ex) = 1
    /\ ex[1].pc = "failed"
    /\ Len(chatMessages) = 4
    /\ Rendered[3] = [role |-> "assistant", html |-> MarkedParse(<<"a", Fence>>)]
    /\ Rendered[4] = ApologyShown

\* C12: while a stream is read its bubble shows the markdown conversion of
\* the whole buffer, and when the stream ends with a non-empty buffer the
\* bubble showed, before finalization, the conversion of the content that is
\* committed, and shows its finalization afterwards (where clearChat has not
\* taken the bubble out of the pane meanwhile).
C12_RenderIsConversionOfBuffer ==
    [][\A e \in Exchanges :
        /\ ex'[e].pc = "read" => ex'[e].elem = MarkedParse(ex'[e].fullResponse)
        /\ (ex[e].pc = "read" /\ ex'[e].pc = "done" /\ messages' # messages)
           => /\ ex[e].elem = MarkedParse(messages'[Len(messages')].content)
              /\ \A i \in 1..Len(chatMessages) :
                    chatMessages[i].owner = e
                    => Rendered'[i].html =
                         HighlightCodeBlocks(
                             MarkedParse(messages'[Len(messages')].content))]_vars

C12_Witness ==
    /\ Len(ex) = 1
    /\ ex[1].pc = "read"
    /\ ex[1].fullResponse = <<"a", Fence, "a">>
    /\ Rendered[3].html = <<Block("p", <<"a">>), Block("pre", <<"a">>)>>

\* C13: every step other than clearChat leaves the log it found as a prefix
\* of the log it leaves: entries are added at the end only, and none is
\* removed, rewritten or reordered.
C13_LogAppendOnly ==
    [][(~ClearChat) => IsPrefix(messages, messages')]_vars

C13_Witness ==
    /\ Len(messages) = 3
    /\ messages[1].role = "user"
    /\ messages[2] = Msg("assistant", <<"a">>)
    /\ messages[3].role = "user"
    /\ ex[2].pc = "fetch"

\* the bubbles of the pane that stand for a message: all but the greeting
MessageBubbles == SelectSeq(chatMessages, LAMBDA b : b # GreetingBubble)

\* C14: whenever no exchange is in flight the message bubbles of the pane
\* (the greeting not counted) and the log have the same length, and the i-th
\* bubble is the bubble of the i-th logged message, in role and content.
C14_BubblesMatchLog ==
    InFlight = {}
    => /\ Len(MessageBubbles) = Len(messages)
       /\ \A i \in 1..Len(messages) :
             MessageBubbles[i] = StaticBubble(messages[i].content, messages[i].role)

\* C15: when a stream ends with an empty buffer the step appends nothing to
\* the log, neither an assistant message nor an apology, and the busy flag
\* is false after it.
C15_EmptyCompletionIsQuiet ==
    [][\A e \in Exchanges :
        (ex[e].pc = "read" /\ ex[e].fullResponse = <<>> /\ ex'[e].pc = "done")
        => /\ messages' = messages
           /\ ~isTyping']_vars

\* the calls of fetch a step makes: the exchanges it leaves waiting for the
\* answer to a request that were not waiting for one before
RequestsIssued ==
    Cardinality({e \in DOMAIN ex' :
                    /\ ex'[e].pc = "fetch"
                    /\ (e \in DOMAIN ex => ex[e].pc # "fetch")})

\* a step in which sendMessage passes its guard: the user message is logged
SubmissionAccepted ==
    /\ Len(messages') = Len(messages) + 1
    /\ messages'[Len(messages')].role = "user"

\* C16: a step issues one request if it is an accepted submission and none
\* otherwise, so that requests and accepted submissions stay equal in number;
\* a step that fails an exchange issues none and leaves it in the failed
\* state with the apology logged.
C16_OneRequestPerSubmission ==
    [][/\ RequestsIssued = IF SubmissionAccepted THEN 1 ELSE 0
       /\ \A e \in Exchanges :
            (ex[e].pc \in {"fetch", "read"} /\ ex'[e].pc # ex[e].pc
                /\ ex'[e].pc \notin {"read", "done"})
            => /\ ex'[e].pc = "failed"
               /\ messages'[Len(messages')] = Apology]_vars

C16_Witness ==
    /\ Len(ex) = 2
    /\ ex[1].pc = "failed"
    /\ ex[2].pc = "failed"
    /\ Apologies(messages) = 2
    /\ Len(messages) = 4

\* C17: the buffer of every stream being read is the concatenation of the
\* fragments that arrived on its own response, whatever other streams run
\* beside it, and the content of a committed assistant message is that
\* concatenation for the stream that commits it.
C17_BufferFromOneResponse ==
    [][\A e \in Exchanges :
        /\ ex'[e].pc = "read" => ex'[e].fullResponse = ex'[e].expected
        /\ (ex[e].pc = "read" /\ ex'[e].pc = "done" /\ messages' # messages)
           => messages'[Len(messages')] = Msg("assistant", ex[e].expected)]_vars

C17_Witness ==
    /\ Len(ex) = 2
    /\ ex[1].pc = "read"
    /\ ex[2].pc = "done"
    /\ ex[1].fullResponse = <<"a">>
    /\ LastMessage = Msg("assistant", <<Fence>>)

\* the chunks made of records without the data prefix only
CommentChunks ==
    {[i \in 1..n |-> [k |-> "comment", c |-> <<>>]] : n \in 1..MaxRecs}

\* C18: a chunk made only of records that do not start with the data prefix
\* leaves the stream open and buffer, bubble, pane and log as they were; and
\* while no end marker has been met, the buffer of a stream that has met such
\* records is the concatenation of the fragments sent, as if they had not
\* been there, and its bubble the conversion of that buffer.
C18_OtherRecordsIgnored ==
    [][\A e \in Exchanges :
        /\ \A recs \in CommentChunks :
              ReadChunk(e, recs)
              => /\ ex'[e].pc = "read"
                 /\ ex'[e].fullResponse = ex[e].fullResponse
                 /\ ex'[e].elem = ex[e].elem
                 /\ Rendered' = Rendered
                 /\ messages' = messages
        /\ (ex'[e].pc = "read" /\ ex'[e].sawComment /\ ~ex'[e].sawDone)
           => /\ ex'[e].fullResponse = ex'[e].expected
              /\ ex'[e].elem = MarkedParse(ex'[e].fullResponse)
        /\ (ex[e].pc = "read" /\ ex'[e].sawComment /\ ~ex[e].sawComment)
           => /\ ex'[e].pc = "read"
              /\ messages' = messages]_vars

C18_Witness ==
    /\ Len(ex) = 1
    /\ ex[1].pc = "read"
    /\ ex[1].sawComment
    /\ ~ex[1].sawDone
    /\ ex[1].bad = "none"
    /\ nRecs = 3
    /\ ex[1].fullResponse = <<"a", "a">>
    /\ messages = <<Msg("user", <<"q">>)>>

\* C19: a call of getAIResponse issues one request, when it starts, and none
\* later; it settles either by returning a string, the content of the first
\* completion entry, or by throwing, and never by returning undefined; and
\* no step of it changes the log or the busy flag.
C19_ReturnsContentOrFails ==
    [][\A c \in DOMAIN calls' :
        /\ c \notin DOMAIN calls => Len(calls'[c].requests) = 1
        /\ c \in DOMAIN calls => Len(calls'[c].requests) <= Len(calls[c].requests)
        /\ calls'[c].pc = "returned" => calls'[c].result.type = "string"
        /\ calls' # calls => (messages' = messages /\ isTyping' = isTyping)]_vars

RECURSIVE SumRange(_, _, _)
SumRange(arr, i, j) == IF i > j THEN 0 ELSE arr[i] + SumRange(arr, i + 1, j)

\* the largest sum of a non-empty contiguous subarray, over all index ranges
BruteForce(arr) ==
    LET ranges == {<<i, j>> \in (1..Len(arr)) \X (1..Len(arr)) : i <= j}
        values == {SumRange(arr, r[1], r[2]) : r \in ranges}
    IN CHOOSE m \in values : \A v \in values : v <= m

\* C20: what calKadaneAlgo returns for a non-empty array of integers is the
\* largest sum of a non-empty contiguous subarray, in either file.
C20_AgreesWithBruteForce ==
    kadane.file # "none" => kadane.result = BruteForce(kadane.arr)

\* what a list of intervals covers: its points, and the unit segments
\* [p, p + 1] that lie inside one of its intervals
PointsOf(ivs) ==
    {p \in 0..MaxPoint : \E k \in 1..Len(ivs) : ivs[k][1] <= p /\ p <= ivs[k][2]}

SegmentsOf(ivs) ==
    {p \in 0..MaxPoint : \E k \in 1..Len(ivs) : ivs[k][1] <= p /\ p + 1 <= ivs[k][2]}

\* C21: what mergeInterval returns is sorted by start, no two of its
\* intervals share a point, and it covers exactly what the input covers.
C21_MergedIntervalsCoverInput ==
    script.logged
    => /\ \A i, j \in 1..Len(script.result) :
             i < j => script.result[i][2] < script.result[j][1]
       /\ PointsOf(script.result) = PointsOf(script.arr)
       /\ SegmentsOf(script.result) = SegmentsOf(script.arr)

\* C22: what rotateArrWithKNumber(arr, k) returns, 1 <= k <= arr.length, is
\* arr rotated to the right by k: it has the length of arr and the element
\* at index i of arr is at index (i + k) mod n of it (indices from 0).
C22_RotatedRightByK ==
    script.logged
    => LET n == Len(script.arr) IN
       /\ Len(script.result) = n
       /\ \A i \in 0..(n - 1) :
             script.result[((i + script.k) % n) + 1] = script.arr[i + 1]

\* what each binarySearch is to report: the first file the value found or
\* false, the second the index (from 0) or -1
Report(file, arr, target) ==
    IF ~InArray(arr, target)
    THEN (IF file = "My_Study_Material" THEN False ELSE Number(0 - 1))
    ELSE IF file = "My_Study_Material" THEN Number(target)
    ELSE Number((CHOOSE i \in 1..Len(arr) : arr[i] = target) - 1)

\* C23: a search started on the full index range never exhausts the call
\* stack, and once it has returned it has reported the target when the
\* target is in the array and 'no element found' when it is not.
C23_SearchTerminatesWithAnswer ==
    /\ script.pc # "RangeError"
    /\ script.pc = "returned"
       => script.result = Report(script.file, script.arr, script.target)

\* C24: when a stream commits its reply, the log ends with the user message
\* of that very exchange: no submission has been accepted after it and the
\* message has not been taken out of the log, so that the reply comes to
\* stand right after the user message it answers.
C24_ReplyFollowsItsRequest ==
    [][\A e \in Exchanges :
        (ex[e].pc = "read" /\ ex'[e].pc = "done" /\ messages' # messages)
        => /\ e = Len(ex)
           /\ messages # <<>>
           /\ LastMessage.role = "user"]_vars

\* the exchanges started before the last clearChat: every submission logs
\* one user message and only clearChat takes messages out, so they are as
\* many as the log has user messages fewer than there are exchanges
UserMessages(log) == Cardinality({i \in 1..Len(log) : log[i].role = "user"})

StartedBeforeClear(e) == e <= Len(ex) - UserMessages(messages)

\* C25: an exchange started before the last clearChat appends nothing to the
\* log when it ends, neither a reply nor an apology.
C25_ClearedExchangesStayOut ==
    [][\A e \in Exchanges :
        (StartedBeforeClear(e) /\ ex[e].pc \in {"fetch", "read"}
            /\ ex'[e].pc \in {"done", "failed"})
        => messages' = messages]_vars

\* what is committed when the whole body arrives in one read
OneRead(recs) == ProcessChunk(Wire(recs), <<>>)

\* C26: however the bytes of a body are cut into reads, the content that is
\* committed when the stream ends is the content that the same body gives
\* when it arrives in one read.
C26_CommitIndependentOfReads ==
    [][\A e \in Exchanges :
        (ex[e].pc = "read" /\ ex'[e].pc = "done")
        => /\ ex[e].fullResponse = OneRead(stream.recs)
           /\ messages' = Append(messages, Msg("assistant", OneRead(stream.recs)))]_vars

\* C27: whenever isTyping is true, as it is after every accepted submission,
\* a state follows in which isTyping is false and the send control enabled,
\* provided the network answers.
C27_BusyFlagReleased ==
    isTyping ~> (~isTyping /\ ~sendDisabled)

C27_Witness ==
    /\ Len(ex) = 2
    /\ ex[1].pc = "done"
    /\ ex[2].pc = "failed"
    /\ ~isTyping
    /\ ~sendDisabled
    /\ ~indicatorShown

\* C28: every message of the log has a content that is not empty and the
\* role user or assistant, and the content of a user message neither begins
\* nor ends with whitespace; the empty bubble of a running stream has no
\* entry in the log.
C28_LogEntriesWellFormed ==
    \A i \in 1..Len(messages) :
        /\ messages[i].content # <<>>
        /\ messages[i].role \in {"user", "assistant"}
        /\ messages[i].role = "user" => Trim(messages[i].content) = messages[i].content

C28_Witness ==
    /\ Len(ex) = 1
    /\ ex[1].pc = "read"
    /\ ex[1].fullResponse = <<>>
    /\ nRecs = 2
    /\ Len(chatMessages) = 3
    /\ chatMessages[3].owner = 1
    /\ Rendered[3].html = <<>>
    /\ messages = <<Msg("user", <<"q">>)>>

\* C29: a submission that the guard of sendMessage rejects, the input being
\* blank or isTyping true, leaves the log, the pane, the busy flag, the send
\* control and the requests as they were, issues no request, and leaves the
\* text in the input field as the user entered it.
C29_RejectedSubmissionChangesNothing ==
    [][\A v \in Inputs :
        (Rejects(v, isTyping) /\ SendRejected(v))
        => /\ messages' = messages
           /\ Rendered' = Rendered
           /\ chatMessages' = chatMessages
           /\ messageInput' = v
           /\ isTyping' = isTyping
           /\ sendDisabled' = sendDisabled
           /\ ex' = ex
           /\ RequestsIssued = 0]_vars

C29_Witness ==
    /\ isTyping
    /\ messageInput = <<" ", "q", " ">>
    /\ Len(ex) = 1
    /\ ex[1].pc = "fetch"
    /\ messages = <<Msg("user", <<"q">>)>>
    /\ Len(chatMessages) = 2

\* C30: a search for a target that is in the rotated array never exhausts
\* the call stack, and once it has returned it has returned the index (from
\* 0) at which the array holds the target.
C30_RotatedSearchFindsIndex ==
    /\ script.pc # "RangeError"
    /\ script.pc = "returned"
       => /\ script.result.type = "number"
          /\ script.result.value \in 0..(Len(script.arr) - 1)
          /\ script.arr[script.result.value + 1] = script.target

====
